---- MODULE Spec2Model ----
(***************************************************************************)
(* Model of slutils.py: the gmsh result loader merge_in_gmsh with its      *)
(* working-directory context manager `output`, and the sympy ->            *)
(* sparselizard expression translator lizardify.                           *)
(***************************************************************************)
EXTENDS Integers, Sequences, FiniteSets, TLC

VARIABLES
    \* ---- process / file-system / gmsh state used by merge_in_gmsh ----
    cwd,            \* os.getcwd(): the process working directory
    fs,             \* path -> "dir" | "file" | "absent" | "noparent"
    listing,        \* what os.listdir() returns inside the target directory
    views,          \* gmsh.view.getTags() as a set of tags
    pc,             \* position of the merge_in_gmsh call
    directory,      \* argument `directory`
    filter,         \* argument `filter` ("None" is the default)
    tags,           \* the list the `for t in gmsh.view.getTags()` loop iterates
    old_workdir,    \* output.old_workdir
    filterArg,      \* the list the filter was called with
    files,          \* local `files` (the part not merged yet)
    merged,         \* sequence of gmsh.merge(f) calls made so far
    exc,            \* exception propagating out of the call ("none" if none)
    cwd_before,     \* working directory when the call started
    views_before,   \* views when the call started
    \* ---- state used by lizardify ----
    default_rules,  \* module global _lizardify_default_rewrite_rules
    shared_empty,   \* the default-argument object rewrite_overrides={}
    subs,           \* caller's substitution dict
    expr_in,        \* caller's sympy expression
    overrides,      \* caller's rewrite_overrides dict
    passed,         \* whether the last call passed `overrides` (else the default)
    rewrite_rules,  \* local rewrite_rules of the last call
    result,         \* outcome of the last lizardify call
    first,          \* outcome of the first call, per value of `passed`
    ncalls          \* number of lizardify calls made

loaderVars == <<cwd, fs, listing, views, pc, directory, filter, tags, old_workdir,
                filterArg, files, merged, exc, cwd_before, views_before>>
lizVars == <<default_rules, shared_empty, subs, expr_in, overrides, passed,
             rewrite_rules, result, first, ncalls>>
vars == <<loaderVars, lizVars>>

-----------------------------------------------------------------------------
(* Bounds *)

MaxFiles == 3   \* most entries in the listed directory
MaxViews == 2   \* most views loaded before the call
MaxArgs == 3    \* most operands of an Add or Mul node over the atoms
MaxCalls == 2   \* lizardify calls in one behaviour

-----------------------------------------------------------------------------
(* Filenames are Python str values: sequences of code points. *)

Min(a, b) == IF a <= b THEN a ELSE b

NameApos == <<97, 46, 112, 111, 115>>       \* "a.pos"
NameBpos == <<98, 46, 112, 111, 115>>       \* "b.pos"
NameCtxt == <<99, 46, 116, 120, 116>>       \* "c.txt"
NameUpos == <<66, 46, 112, 111, 115>>       \* "B.pos"
NamePos  == <<112, 111, 115>>               \* "pos"
DotPos   == <<46, 112, 111, 115>>           \* ".pos"

FileNames == {NameApos, NameBpos, NameCtxt, NameUpos, NamePos}

\* str.__lt__: comparison by code point, a proper prefix is smaller
StrLess(a, b) ==
    \E i \in 1..(Min(Len(a), Len(b)) + 1) :
        /\ \A j \in 1..(i - 1) : a[j] = b[j]
        /\ \/ i > Len(a) /\ i <= Len(b)
           \/ i <= Len(a) /\ i <= Len(b) /\ a[i] < b[i]

\* f[-4:]
Last4(f) == IF Len(f) <= 4 THEN f ELSE SubSeq(f, Len(f) - 3, Len(f))

RECURSIVE SelectPos(_)
\* [f for f in fs if f[-4:] == ".pos"]
SelectPos(fl) ==
    IF fl = <<>> THEN <<>>
    ELSE IF Last4(Head(fl)) = DotPos
         THEN <<Head(fl)>> \o SelectPos(Tail(fl))
         ELSE SelectPos(Tail(fl))

RECURSIVE InsertSorted(_, _)
InsertSorted(x, s) ==
    IF s = <<>> THEN <<x>>
    ELSE IF StrLess(x, Head(s)) THEN <<x>> \o s
         ELSE <<Head(s)>> \o InsertSorted(x, Tail(s))

RECURSIVE SortAscending(_)
SortAscending(s) ==
    IF s = <<>> THEN <<>> ELSE InsertSorted(Head(s), SortAscending(Tail(s)))

Reverse(s) == [i \in 1..Len(s) |-> s[Len(s) + 1 - i]]

\* files.sort()
ListSort(s) == SortAscending(s)

IsSorted(s) == \A i \in 1..(Len(s) - 1) : ~StrLess(s[i + 1], s[i])

Range(s) == {s[i] : i \in 1..Len(s)}

\* all orders in which os.listdir() may return a directory's entries
Perms(S) == {p \in [1..Cardinality(S) -> S] : Range(p) = S}
Listings == UNION {Perms(S) : S \in {T \in SUBSET FileNames : Cardinality(T) <= MaxFiles}}

-----------------------------------------------------------------------------
(* merge_in_gmsh *)

Paths == {"home", "out", "new", "afile", "no/parent"}
Filters == {"None", "all", "reversed", "first", "raises", "chdir"}

FsInit == [p \in Paths |->
             CASE p = "home" -> "dir"
               [] p = "out" -> "dir"
               [] p = "new" -> "absent"
               [] p = "afile" -> "file"
               [] OTHER -> "noparent"]

\* the default filter installed when filter == None
DefaultFilterAll(fl) == fl
DefaultFilter(fl) == SelectPos(fl)

\* the list handed to the filter: os.listdir() as returned
FilterInputSorted(l) == ListSort(l)
FilterInput(l) == l

\* filter(fl) for the caller-supplied filters of the model; "raises" never returns
ApplyFilter(flt, fl) ==
    CASE flt = "None" -> DefaultFilter(fl)
      [] flt = "all" -> fl
      [] flt = "reversed" -> Reverse(fl)
      [] flt = "first" -> IF fl = <<>> THEN <<>> ELSE <<Head(fl)>>
      [] OTHER -> fl

\* the views the removal loop removes: every tag getTags() returned
TagsToRemove(v) == v

SetToSeq(S) == CHOOSE s \in [1..Cardinality(S) -> S] :
                   /\ Range(s) = S
                   /\ \A i \in 1..(Cardinality(S) - 1) : s[i] < s[i + 1]

\* output.__exit__: the directory chdir'ed to
ExitStay(old, cur) == cur
ExitTarget(old, cur) == old

LizIdle ==
    /\ default_rules = <<>>
    /\ shared_empty = <<>>
    /\ subs = <<>>
    /\ expr_in = <<>>
    /\ overrides = <<>>
    /\ passed = FALSE
    /\ rewrite_rules = <<>>
    /\ result = <<>>
    /\ first = <<>>
    /\ ncalls = 0

InitLoader ==
    /\ cwd = "home"
    /\ fs = FsInit
    /\ listing \in Listings
    /\ views \in SUBSET (1..MaxViews)
    /\ pc = "idle"
    /\ directory = "home"
    /\ filter = "None"
    /\ tags = <<>>
    /\ old_workdir = "unset"
    /\ filterArg = <<>>
    /\ files = <<>>
    /\ merged = <<>>
    /\ exc = "none"
    /\ cwd_before = "home"
    /\ views_before = {}
    /\ LizIdle

\* lines 21-32: the call starts; filter None is replaced by the default; getTags()
Call(d, flt) ==
    /\ pc = "idle"
    /\ directory' = d
    /\ filter' = flt
    /\ cwd_before' = cwd
    /\ views_before' = views
    /\ tags' = SetToSeq(TagsToRemove(views))
    /\ pc' = "remove"
    /\ UNCHANGED <<cwd, fs, listing, views, old_workdir, filterArg, files, merged, exc>>

\* line 33: gmsh.view.remove(t)
RemoveView ==
    /\ pc = "remove"
    /\ tags # <<>>
    /\ views' = views \ {Head(tags)}
    /\ tags' = Tail(tags)
    /\ UNCHANGED <<cwd, fs, listing, pc, directory, filter, old_workdir, filterArg,
                   files, merged, exc, cwd_before, views_before>>

\* line 33: gmsh.view.remove(t) raises; nothing has changed the directory yet
RemoveRaises ==
    /\ pc = "remove"
    /\ tags # <<>>
    /\ exc' = "gmsh"
    /\ pc' = "raised"
    /\ UNCHANGED <<cwd, fs, listing, views, directory, filter, tags, old_workdir,
                   filterArg, files, merged, cwd_before, views_before>>

\* lines 36, 8-16: output(directory) is built and entered
\* mkdir: creates an absent directory, FileExistsError is swallowed, any other
\* error propagates; chdir fails on a path that is not a directory.
Enter ==
    /\ pc = "remove"
    /\ tags = <<>>
    /\ old_workdir' = cwd
    /\ CASE fs[directory] = "noparent" ->
              /\ exc' = "FileNotFoundError"
              /\ pc' = "raised"
              /\ UNCHANGED <<cwd, fs>>
         [] fs[directory] = "file" ->
              /\ exc' = "NotADirectoryError"
              /\ pc' = "raised"
              /\ UNCHANGED <<cwd, fs>>
         [] fs[directory] = "absent" ->
              /\ fs' = [fs EXCEPT ![directory] = "dir"]
              /\ cwd' = directory
              /\ pc' = "list"
              /\ UNCHANGED exc
         [] OTHER ->
              /\ cwd' = directory
              /\ pc' = "list"
              /\ UNCHANGED <<fs, exc>>
    /\ UNCHANGED <<listing, views, directory, filter, tags, filterArg, files, merged,
                   cwd_before, views_before>>

\* os.listdir() in the current directory: a directory just created is empty
ListDir == IF directory = "new" THEN <<>> ELSE listing

\* lines 37-38: files = filter(os.listdir()); files.sort()
ListFilterSort ==
    /\ pc = "list"
    /\ filterArg' = FilterInput(ListDir)
    /\ IF filter = "raises"
       THEN /\ exc' = "filter"
            /\ pc' = "exit"
            /\ UNCHANGED <<files, cwd>>
       ELSE /\ files' = ListSort(ApplyFilter(filter, FilterInput(ListDir)))
            /\ pc' = "merge"
            /\ cwd' = IF filter = "chdir" THEN "out" ELSE cwd
            /\ UNCHANGED exc
    /\ UNCHANGED <<fs, listing, views, directory, filter, tags, old_workdir, merged,
                   cwd_before, views_before>>

\* line 37: os.listdir() raises
ListDirRaises ==
    /\ pc = "list"
    /\ exc' = "OSError"
    /\ pc' = "exit"
    /\ UNCHANGED <<cwd, fs, listing, views, directory, filter, tags, old_workdir,
                   filterArg, files, merged, cwd_before, views_before>>

\* lines 39-40: gmsh.merge(f) for the next file; the merge adds a view
Merge ==
    /\ pc = "merge"
    /\ files # <<>>
    /\ merged' = Append(merged, Head(files))
    /\ files' = Tail(files)
    /\ views' = views \cup {MaxViews + Len(merged) + 1}
    /\ UNCHANGED <<cwd, fs, listing, pc, directory, filter, tags, old_workdir,
                   filterArg, exc, cwd_before, views_before>>

\* line 40: gmsh.merge(f) raises
MergeRaises ==
    /\ pc = "merge"
    /\ files # <<>>
    /\ exc' = "gmsh"
    /\ pc' = "exit"
    /\ UNCHANGED <<cwd, fs, listing, views, directory, filter, tags, old_workdir,
                   filterArg, files, merged, cwd_before, views_before>>

\* line 39: the loop is exhausted, the with-body ends normally
LoopDone ==
    /\ pc = "merge"
    /\ files = <<>>
    /\ pc' = "exit"
    /\ UNCHANGED <<cwd, fs, listing, views, directory, filter, tags, old_workdir,
                   filterArg, files, merged, exc, cwd_before, views_before>>

\* lines 17-18: output.__exit__ runs on every way out of the with-body and
\* returns None, so a pending exception keeps propagating
Exit ==
    /\ pc = "exit"
    /\ cwd' = ExitTarget(old_workdir, cwd)
    /\ pc' = IF exc = "none" THEN "returned" ELSE "raised"
    /\ UNCHANGED <<fs, listing, views, directory, filter, tags, old_workdir,
                   filterArg, files, merged, exc, cwd_before, views_before>>

NextLoader ==
    \/ \E d \in Paths, flt \in Filters : Call(d, flt) /\ UNCHANGED lizVars
    \/ RemoveView /\ UNCHANGED lizVars
    \/ RemoveRaises /\ UNCHANGED lizVars
    \/ Enter /\ UNCHANGED lizVars
    \/ ListFilterSort /\ UNCHANGED lizVars
    \/ ListDirRaises /\ UNCHANGED lizVars
    \/ Merge /\ UNCHANGED lizVars
    \/ MergeRaises /\ UNCHANGED lizVars
    \/ LoopDone /\ UNCHANGED lizVars
    \/ Exit /\ UNCHANGED lizVars

SpecLoader == InitLoader /\ [][NextLoader]_vars

-----------------------------------------------------------------------------
(* sympy expressions.  A node is a record: func is o.func.__name__, matrix  *)
(* is isinstance(o, sp.MatrixBase), args is o.args, sym identifies a        *)
(* Symbol, num/den is the value of a number, flt is what float(o) does.     *)

Node(f, m, a, s, n, d, fl) ==
    [func |-> f, matrix |-> m, args |-> a, sym |-> s, num |-> n, den |-> d, flt |-> fl]

Sym(i) == Node("Symbol", FALSE, <<>>, i, 0, 0, "TypeError")
SymX == Sym(1)
SymY == Sym(2)
SymZ == Sym(3)
NegOne == Node("NegativeOne", FALSE, <<>>, 0, -1, 1, "ok")     \* S.NegativeOne
Two == Node("Integer", FALSE, <<>>, 0, 2, 1, "ok")
Half == Node("Rational", FALSE, <<>>, 0, 1, 2, "ok")
FloatM1 == Node("Float", FALSE, <<>>, 0, -1, 1, "ok")          \* Float(-1.0)
Foo == Node("Foo", FALSE, <<>>, 0, 0, 0, "TypeError")          \* float() raises TypeError
Bar == Node("Bar", FALSE, <<>>, 0, 0, 0, "ValueError")         \* float() raises ValueError
IntNode(k) == Node("Integer", FALSE, <<>>, 0, k, 1, "ok")

\* an expression with operands cannot be converted by float(): TypeError
Op(f, a) == Node(f, FALSE, a, 0, 0, 0, "TypeError")
AddN(a) == Op("Add", a)
MulN(a) == Op("Mul", a)
PowN(b, p) == Op("Pow", <<b, p>>)
Fn(f, a) == Op(f, a)
TupleN(a) == Op("Tuple", a)
\* ImmutableDenseMatrix: args are (rows, cols, Tuple of the elements, row-major)
MatrixN(r, c, el) ==
    Node("ImmutableDenseMatrix", TRUE, <<IntNode(r), IntNode(c), TupleN(el)>>, 0, 0, 0, "TypeError")

\* iterating a matrix yields its elements in row-major order
Elements(e) == e.args[3].args

SeqsOver(S, lo, hi) == UNION {[1..n -> S] : n \in lo..hi}

CoreAtoms == {SymX, SymZ, Two, Foo}
Atoms == {SymX, SymY, SymZ, NegOne, Two, Half, FloatM1, Foo, Bar}
Exponents == {NegOne, Two, FloatM1, SymX, SymZ}
Mid == {AddN(<<SymX, SymY>>), AddN(<<SymX, SymZ>>), MulN(<<Two, SymX>>),
        PowN(SymX, Two), PowN(SymX, NegOne), PowN(SymZ, NegOne),
        Fn("sin", <<SymX>>), Fn("f", <<SymX>>)}

Level1 ==
    {AddN(a) : a \in SeqsOver(CoreAtoms, 2, MaxArgs)}
    \cup {MulN(a) : a \in SeqsOver(CoreAtoms, 2, MaxArgs)}
    \cup {PowN(b, p) : b \in CoreAtoms \cup {Bar}, p \in Exponents}
    \cup {Fn(f, <<a>>) : f \in {"sin", "log", "f"}, a \in CoreAtoms}
    \cup {Fn("atan2", <<a, b>>) : a \in {SymX, SymZ}, b \in {SymX, SymZ}}
    \cup {MatrixN(1, 2, <<a, b>>) : a \in CoreAtoms, b \in CoreAtoms}
    \cup {MatrixN(2, 1, <<a, b>>) : a \in {SymX, Two}, b \in {SymZ, Foo}}

Level2 ==
    {AddN(<<m, a>>) : m \in Mid, a \in {SymX, SymZ, Foo}}
    \cup {AddN(<<a, m>>) : m \in Mid, a \in {SymX, SymZ, Foo}}
    \cup {MulN(<<m, a>>) : m \in Mid, a \in {SymX, SymZ, Foo}}
    \cup {MulN(<<a, m>>) : m \in Mid, a \in {SymX, SymZ, Foo}}
    \cup {AddN(<<a, m, b>>) : m \in Mid, a \in {SymZ, Two}, b \in {SymY, Bar}}
    \cup {PowN(m, p) : m \in Mid, p \in {NegOne, Two, FloatM1}}
    \cup {PowN(Two, m) : m \in Mid}
    \cup {Fn(f, <<m>>) : f \in {"sin", "f"}, m \in Mid}
    \cup {MatrixN(1, 2, <<m, a>>) : m \in Mid, a \in {SymZ, Two}}

Exprs == Atoms \cup Level1 \cup Level2

-----------------------------------------------------------------------------
(* Target values.  The translator only composes them, so a value is the     *)
(* term that built it; an exception is a value with op = "raise".           *)

Val(o, nm, tg, n, d, k) == [op |-> o, name |-> nm, tag |-> tg, n |-> n, d |-> d, kids |-> k]

Field(nm) == Val("field", nm, "", 0, 0, <<>>)          \* an sl.field / sl.expression
PyFloat(n, d) == Val("float", "", "", n, d, <<>>)      \* the Python float n/d
Plus(a, b) == Val("plus", "", "", 0, 0, <<a, b>>)      \* a + b
Times(a, b) == Val("times", "", "", 0, 0, <<a, b>>)    \* a * b
SlPow(a, b) == Val("pow", "", "", 0, 0, <<a, b>>)      \* sl.pow(a, b)
RDiv(a) == Val("rdiv", "", "", 1, 0, <<a>>)            \* 1 / a
SlMatrix(r, c, el) == Val("matrix", "", "", r, c, el)  \* sl.expression(r, c, el)
RuleCall(rule, a) == Val("call", rule, "", 0, 0, a)    \* rule(*a)
Raise(kind, tg, n) == Val("raise", kind, tg, n, 0, <<>>)

IsErr(v) == v.op = "raise"

\* rule(*args): "user.fail" raises, every other rule returns a value
CallRule(rule, a) == IF rule = "user.fail" THEN Raise("RuleError", "", 0) ELSE RuleCall(rule, a)

EmptyMap == [k \in {} |-> ""]

\* lines 45-55
DefaultRules ==
    [t \in {"log", "sin", "cos", "tan", "asin", "acos", "atan", "Abs", "atan2"} |->
        CASE t = "log" -> "sl.log10"
          [] t = "sin" -> "sl.sin"
          [] t = "cos" -> "sl.cos"
          [] t = "tan" -> "sl.tan"
          [] t = "asin" -> "sl.asin"
          [] t = "acos" -> "sl.acos"
          [] t = "atan" -> "sl.atan"
          [] t = "Abs" -> "sl.abs"
          [] OTHER -> "sl.atan2"]

One(t, r) == [k \in {t} |-> r]

OverrideChoices ==
    {EmptyMap,
     [k \in {"log", "f"} |-> IF k = "log" THEN "user.g" ELSE "user.h"],
     One("atan2", "user.g"), One("f", "user.fail"),
     One("Add", "user.g"), One("Mul", "user.g"), One("Pow", "user.g"),
     One("Matrix", "user.g"), One("Symbol", "user.g")}

SubsChoices ==
    {[i \in {1, 2, 3} |-> Field(CASE i = 1 -> "xf" [] i = 2 -> "yf" [] OTHER -> "zf")],
     [i \in {1, 2} |-> IF i = 1 THEN Field("xf") ELSE PyFloat(3, 1)],
     [i \in {} |-> Field("xf")]}

\* lines 57-61
_get_name(o) == IF o.matrix THEN "Matrix" ELSE o.func

\* line 99: {**_lizardify_default_rewrite_rules, **rewrite_overrides}
MergeDefaultsWin(d, o) ==
    [k \in DOMAIN d \cup DOMAIN o |-> IF k \in DOMAIN d THEN d[k] ELSE o[k]]
MergeRules(d, o) ==
    [k \in DOMAIN d \cup DOMAIN o |-> IF k \in DOMAIN o THEN o[k] ELSE d[k]]

StructuralTags == {"Add", "Mul", "Pow", "Matrix", "Symbol"}

\* lines 104-125: the branch of the if/elif chain taken for tag ename
BranchStructuralFirst(R, ename) ==
    IF ename \in StructuralTags THEN ename
    ELSE IF ename \in DOMAIN R THEN "rule" ELSE "float"
Branch(R, ename) ==
    IF ename \in DOMAIN R THEN "rule"
    ELSE IF ename \in StructuralTags THEN ename ELSE "float"

\* line 117: isinstance(p, sp.core.numbers.NegativeOne)
IsMinusOneByValue(p) == p.flt = "ok" /\ p.den # 0 /\ p.num = -p.den
IsNegativeOne(p) == p.func = "NegativeOne"

\* line 124: subs[expr]
SubsGetOrZero(S, e) == IF e.sym \in DOMAIN S THEN S[e.sym] ELSE PyFloat(0, 1)
SubsLookup(S, e) == IF e.sym \in DOMAIN S THEN S[e.sym] ELSE Raise("KeyError", "", e.sym)

\* lines 129-135: float(expr); a TypeError is re-raised naming the tag, any
\* other exception leaves the try statement as it is
FloatOrError(e, ename) ==
    IF e.flt = "ok" THEN PyFloat(e.num, e.den)
    ELSE IF e.flt = "TypeError" THEN Raise("TypeError", ename, 0)
    ELSE Raise(e.flt, "", 0)

Bin(o, a, b) == IF o = "plus" THEN Plus(a, b) ELSE Times(a, b)

RECURSIVE FoldLeft(_, _, _)
FoldLeft(o, acc, rest) ==
    IF rest = <<>> THEN acc ELSE FoldLeft(o, Bin(o, acc, Head(rest)), Tail(rest))

RECURSIVE FoldRight(_, _)
FoldRight(o, vals) ==
    IF Len(vals) = 1 THEN vals[1] ELSE Bin(o, Head(vals), FoldRight(o, Tail(vals)))

\* lines 108, 110: reduce(lambda x, y: x op y, vals)
ReduceRight(o, vals) ==
    IF vals = <<>> THEN Raise("TypeError", "", 0) ELSE FoldRight(o, vals)
Reduce(o, vals) ==
    IF vals = <<>> THEN Raise("TypeError", "", 0) ELSE FoldLeft(o, Head(vals), Tail(vals))

RECURSIVE doit(_, _, _), MapDoit(_, _, _)

\* map(doit, nodes) consumed left to right: the translated values, or the first
\* exception; pw counts the sl.pow calls made on the way
MapDoit(R, S, nodes) ==
    IF nodes = <<>> THEN [vals |-> <<>>, err |-> <<>>, pw |-> 0]
    ELSE LET h == doit(R, S, Head(nodes))
         IN IF IsErr(h.v) THEN [vals |-> <<>>, err |-> <<h.v>>, pw |-> h.pw]
            ELSE LET t == MapDoit(R, S, Tail(nodes))
                 IN [vals |-> <<h.v>> \o t.vals, err |-> t.err, pw |-> h.pw + t.pw]

\* lines 101-135
doit(R, S, e) ==
    LET ename == _get_name(e)
        br == Branch(R, ename)
        Of(m, v) == IF m.err # <<>> THEN [v |-> m.err[1], pw |-> m.pw]
                    ELSE [v |-> v, pw |-> m.pw]
    IN CASE br = "rule" ->
              LET m == MapDoit(R, S, e.args)
              IN Of(m, CallRule(R[ename], m.vals))
         [] br = "Add" ->
              LET m == MapDoit(R, S, e.args) IN Of(m, Reduce("plus", m.vals))
         [] br = "Mul" ->
              LET m == MapDoit(R, S, e.args) IN Of(m, Reduce("times", m.vals))
         [] br = "Pow" ->
              IF Len(e.args) # 2 THEN [v |-> Raise("ValueError", "", 0), pw |-> 0]
              ELSE IF IsNegativeOne(e.args[2])
                   THEN LET m == MapDoit(R, S, <<e.args[1]>>) IN Of(m, RDiv(m.vals[1]))
                   ELSE LET m == MapDoit(R, S, e.args)
                        IN IF m.err # <<>> THEN [v |-> m.err[1], pw |-> m.pw]
                           ELSE [v |-> SlPow(m.vals[1], m.vals[2]), pw |-> m.pw + 1]
         [] br = "Matrix" ->
              LET m == MapDoit(R, S, Elements(e))
              IN Of(m, SlMatrix(e.args[1].num, e.args[2].num, m.vals))
         [] br = "Symbol" -> [v |-> SubsLookup(S, e), pw |-> 0]
         [] OTHER -> [v |-> FloatOrError(e, ename), pw |-> 0]

\* line 99 builds a new dict: the module global and the argument objects are
\* neither rebound nor updated by a call
GlobalRulesUpdated(d, o) == MergeRules(d, o)
GlobalRulesAfter(d, o) == d

InitLiz ==
    /\ cwd = "home"
    /\ fs = FsInit
    /\ listing = <<>>
    /\ views = {}
    /\ pc = "idle"
    /\ directory = "home"
    /\ filter = "None"
    /\ tags = <<>>
    /\ old_workdir = "unset"
    /\ filterArg = <<>>
    /\ files = <<>>
    /\ merged = <<>>
    /\ exc = "none"
    /\ cwd_before = "home"
    /\ views_before = {}
    /\ default_rules = DefaultRules
    /\ shared_empty = EmptyMap
    /\ subs \in SubsChoices
    /\ expr_in \in Exprs
    /\ overrides \in OverrideChoices
    /\ passed = FALSE
    /\ rewrite_rules = EmptyMap
    /\ result = <<>>
    /\ first = [b \in BOOLEAN |-> <<>>]
    /\ ncalls = 0

\* lines 63-137: one call lizardify(subs, expr_in[, overrides])
Lizardify(withOverrides) ==
    /\ ncalls < MaxCalls
    /\ LET o == IF withOverrides THEN overrides ELSE shared_empty
           R == MergeRules(default_rules, o)
           r == doit(R, subs, expr_in)
       IN /\ rewrite_rules' = R
          /\ result' = r
          /\ first' = IF first[withOverrides] = <<>>
                      THEN [first EXCEPT ![withOverrides] = <<r>>] ELSE first
          /\ default_rules' = GlobalRulesAfter(default_rules, o)
    /\ passed' = withOverrides
    /\ ncalls' = ncalls + 1
    /\ UNCHANGED <<shared_empty, subs, expr_in, overrides>>

LizardifyDefault == Lizardify(FALSE) /\ UNCHANGED loaderVars
LizardifyWithOverrides == Lizardify(TRUE) /\ UNCHANGED loaderVars

NextLiz == LizardifyDefault \/ LizardifyWithOverrides

SpecLiz == InitLiz /\ [][NextLiz]_vars

-----------------------------------------------------------------------------
(* Properties of merge_in_gmsh *)

Finished == pc \in {"returned", "raised"}

EndsWithDotPos(f) == Len(f) >= 4 /\ SubSeq(f, Len(f) - 3, Len(f)) = DotPos

Count(s, x) == Cardinality({i \in 1..Len(s) : s[i] = x})

SameElements(s, t) == \A x \in FileNames : Count(s, x) = Count(t, x)

StrictlyAscending(s) == \A i \in 1..(Len(s) - 1) : StrLess(s[i], s[i + 1])

\* C1: when a merge_in_gmsh call has ended, by return or by any exception
\* (filter, listdir, gmsh.merge, gmsh.view.remove, mkdir, chdir), the working
\* directory is the one the call started in.
C1_CwdRestored == Finished => cwd = cwd_before

C1_Witness ==
    /\ pc = "raised"
    /\ exc = "gmsh"
    /\ merged # <<>>
    /\ directory # cwd_before
    /\ cwd = cwd_before

\* C2: with the default filter no merge happens while a view that existed
\* before the call is still loaded, the merged files are names of the directory
\* ending in ".pos", each once and in ascending order, and on return every such
\* name has been merged.
C2_DefaultLoad ==
    filter = "None" =>
        /\ merged # <<>> => views \cap views_before = {}
        /\ \A i \in 1..Len(merged) : merged[i] \in Range(ListDir) /\ EndsWithDotPos(merged[i])
        /\ StrictlyAscending(merged)
        /\ pc = "returned" =>
              Range(merged) = {f \in Range(ListDir) : EndsWithDotPos(f)}

C2_Witness ==
    /\ pc = "returned"
    /\ filter = "None"
    /\ views_before # {}
    /\ merged = <<NameUpos, NameApos>>
    /\ listing = <<NameApos, NameCtxt, NameUpos>>

\* C10 (as stated): the list the filter receives is in ascending order.
C10_FilterGetsSortedListing == IsSorted(filterArg)

\* C10 (amended): the filter receives the directory listing in the order
\* os.listdir() returned it; the list the filter returns is then sorted
\* ascending and the files are merged in that order.
C10_SortAfterFilter ==
    /\ pc = "merge" \/ (pc \in {"exit", "returned"} /\ exc = "none") =>
          /\ filterArg = ListDir
          /\ IsSorted(merged \o files)
          /\ SameElements(merged \o files, ApplyFilter(filter, ListDir))
    /\ exc = "filter" => filterArg = ListDir

C10_Witness ==
    /\ pc = "returned"
    /\ filter = "first"
    /\ filterArg = <<NameBpos, NameApos>>
    /\ merged = <<NameBpos>>

-----------------------------------------------------------------------------
(* Properties of lizardify *)

Called == ncalls > 0
RootTag == _get_name(expr_in)
PassedOverrides == IF passed THEN overrides ELSE shared_empty

\* translation of a sub-expression under the table and map of the last call
T(e) == doit(rewrite_rules, subs, e)

\* the sub-expressions of a node: the elements of a matrix, else its operands
SubNodes(e) == IF e.matrix THEN Elements(e) ELSE e.args

RECURSIVE Nodes(_)
Nodes(e) == {e} \cup UNION {Nodes(SubNodes(e)[i]) : i \in 1..Len(SubNodes(e))}

SymbolNodes(e) == {n \in Nodes(e) : ~n.matrix /\ n.func = "Symbol"}
MissingSymbols == {n \in SymbolNodes(expr_in) : n.sym \notin DOMAIN subs}

\* a node no step of the translation can fail on, its symbols aside
Translatable(R, n) ==
    IF n.matrix THEN "Matrix" \notin DOMAIN R
    ELSE \/ n.func \in StructuralTags /\ n.func \notin DOMAIN R
         \/ n.func \in DOMAIN R /\ R[n.func] # "user.fail"
         \/ n.func \notin StructuralTags /\ n.func \notin DOMAIN R /\ n.flt = "ok"

\* x op y in Python: x is evaluated first, the first exception propagates
Compose(o, x, y) == IF IsErr(x) THEN x ELSE IF IsErr(y) THEN y ELSE Bin(o, x, y)

\* the expression with the given operands: the operand itself if there is one
Unflat(f, a) == IF Len(a) = 1 THEN a[1] ELSE Op(f, a)

\* C3: the table of a call holds, for every tag of rewrite_overrides, the
\* override's rule, and for every other default tag the default rule; a node
\* whose tag is in the table is translated by that rule.
C3_MergedTable ==
    Called =>
        /\ DOMAIN rewrite_rules = DOMAIN DefaultRules \cup DOMAIN PassedOverrides
        /\ \A t \in DOMAIN PassedOverrides : rewrite_rules[t] = PassedOverrides[t]
        /\ \A t \in DOMAIN DefaultRules \ DOMAIN PassedOverrides :
               rewrite_rules[t] = DefaultRules[t]
        /\ LET m == MapDoit(rewrite_rules, subs, expr_in.args)
               rule == IF RootTag \in DOMAIN PassedOverrides
                       THEN PassedOverrides[RootTag] ELSE DefaultRules[RootTag]
           IN (RootTag \in DOMAIN DefaultRules \cup DOMAIN PassedOverrides /\ m.err = <<>>)
                  => result.v = CallRule(rule, m.vals)

C3_Witness ==
    /\ Called
    /\ passed
    /\ "log" \in DOMAIN overrides
    /\ expr_in = Fn("log", <<SymX>>)
    /\ 1 \in DOMAIN subs
    /\ result.v = RuleCall("user.g", <<subs[1]>>)
    /\ rewrite_rules["sin"] = "sl.sin"

\* C4 (as stated): a node tagged Symbol, Matrix, Add, Mul or Pow is translated
\* by the built-in rule of its tag whatever the table holds, i.e. as if the
\* table had no entry named after a structural tag.
C4_StructuralAlways ==
    (Called /\ RootTag \in StructuralTags) =>
        result = doit([t \in DOMAIN rewrite_rules \ StructuralTags |-> rewrite_rules[t]],
                      subs, expr_in)

\* C4 (amended): a node tagged Symbol, Matrix, Add, Mul or Pow is translated by
\* the built-in rule of its tag exactly when the table has no entry of that
\* name; when it has one, that rule is called with the translated operands.
C4_TableBeforeStructural ==
    (Called /\ RootTag \in StructuralTags) =>
        IF RootTag \in DOMAIN rewrite_rules
        THEN LET m == MapDoit(rewrite_rules, subs, expr_in.args)
             IN result.v = IF m.err # <<>> THEN m.err[1]
                           ELSE CallRule(rewrite_rules[RootTag], m.vals)
        ELSE LET m == MapDoit(rewrite_rules, subs, SubNodes(expr_in))
             IN CASE RootTag = "Symbol" ->
                       result.v = IF expr_in.sym \in DOMAIN subs THEN subs[expr_in.sym]
                                  ELSE Raise("KeyError", "", expr_in.sym)
                  [] RootTag = "Matrix" ->
                       m.err = <<>> =>
                           result.v = SlMatrix(expr_in.args[1].num, expr_in.args[2].num, m.vals)
                  [] RootTag = "Pow" ->
                       m.err = <<>> =>
                           /\ result.v.op \in {"pow", "rdiv"}
                           /\ result.v.kids[1] = m.vals[1]
                  [] OTHER ->
                       m.err = <<>> =>
                           /\ result.v.op = IF RootTag = "Add" THEN "plus" ELSE "times"
                           /\ result.v.kids[2] = m.vals[Len(m.vals)]

C4_Witness ==
    /\ Called
    /\ passed
    /\ RootTag = "Add"
    /\ "Add" \in DOMAIN rewrite_rules
    /\ result.v.op = "call"
    /\ result.v.name = "user.g"
    /\ Len(result.v.kids) = Len(expr_in.args)

\* C5: with no 'Pow' entry in the table, a Pow node whose exponent is the
\* constant S.NegativeOne translates to 1 / translate(base) without an sl.pow
\* call for the node, and with any other exponent to
\* sl.pow(translate(base), translate(exponent)); an exception of an operand
\* propagates, the base's first.
C5_PowRule ==
    (Called /\ RootTag = "Pow" /\ "Pow" \notin DOMAIN rewrite_rules) =>
        LET b == T(expr_in.args[1])
            p == T(expr_in.args[2])
        IN IF expr_in.args[2] = NegOne
           THEN IF IsErr(b.v) THEN result = b
                ELSE result.v = RDiv(b.v) /\ result.pw = b.pw
           ELSE IF IsErr(b.v) THEN result = b
                ELSE IF IsErr(p.v) THEN result.v = p.v
                     ELSE result.v = SlPow(b.v, p.v) /\ result.pw = b.pw + p.pw + 1

C5_Witness ==
    /\ Called
    /\ "Pow" \notin DOMAIN rewrite_rules
    /\ expr_in = PowN(PowN(SymX, Two), NegOne)
    /\ 1 \in DOMAIN subs
    /\ result.v = RDiv(SlPow(subs[1], PyFloat(2, 1)))
    /\ result.pw = 1

C7_UnsupportedNodeError ==
    (/\ Called
     /\ RootTag \notin StructuralTags
     /\ RootTag \notin DOMAIN rewrite_rules
     /\ expr_in.flt # "ok") => result.v = Raise("TypeError", RootTag, 0)

\* C8 (as stated): for every way of writing the operands of an Add (Mul) node
\* as a followed by b, translate(a + b) = translate(a) + translate(b).
C8_Homomorphism ==
    (Called /\ RootTag \in {"Add", "Mul"} /\ RootTag \notin DOMAIN rewrite_rules) =>
        LET n == Len(expr_in.args)
            o == IF RootTag = "Add" THEN "plus" ELSE "times"
        IN \A k \in 1..(n - 1) :
               result.v = Compose(o, T(Unflat(RootTag, SubSeq(expr_in.args, 1, k))).v,
                                     T(Unflat(RootTag, SubSeq(expr_in.args, k + 1, n))).v)

\* C8 (amended): an Add (Mul) node with operands c1..cn, n >= 2, translates to
\* the left fold ((t(c1) + t(c2)) + ...) + t(cn): it is
\* translate(c1..c(n-1)) + translate(cn), so that the law
\* translate(a + b) = translate(a) + translate(b) holds when b is the last
\* operand alone.
C8_LeftFold ==
    (Called /\ RootTag \in {"Add", "Mul"} /\ RootTag \notin DOMAIN rewrite_rules) =>
        LET n == Len(expr_in.args)
            o == IF RootTag = "Add" THEN "plus" ELSE "times"
        IN result.v = Compose(o, T(Unflat(RootTag, SubSeq(expr_in.args, 1, n - 1))).v,
                                 T(expr_in.args[n]).v)

C8_Witness ==
    /\ Called
    /\ expr_in = AddN(<<SymX, Two, SymZ>>)
    /\ DOMAIN subs = {1, 2, 3}
    /\ "Add" \notin DOMAIN rewrite_rules
    /\ result.v = Plus(Plus(subs[1], PyFloat(2, 1)), subs[3])

\* C9: no call changes the default table, the shared default of
\* rewrite_overrides, or the caller's subs, rewrite_overrides and expression,
\* and every call gives the result the first call with the same arguments gave.
C9_NoMutation ==
    /\ [](/\ default_rules = DefaultRules
          /\ shared_empty = EmptyMap
          /\ Called => first[passed] = <<result>>)
    /\ [][UNCHANGED <<default_rules, shared_empty, subs, expr_in, overrides>>]_vars

C9_Witness ==
    /\ ncalls = 2
    /\ ~passed
    /\ first[TRUE] # <<>>
    /\ "log" \in DOMAIN overrides
    /\ expr_in = Fn("log", <<SymZ>>)
    /\ first[TRUE][1] # result

====
